---- MODULE Spec2Model ----
(***************************************************************************)
(* Model of the environment-bootstrapping scripts of damai-ticket-assistant *)
(*   scripts/windows/start_gui.bat                     (script "start_gui") *)
(*   damai_installer/scripts/install_appium_online.cmd (script "online")    *)
(*   damai_installer/scripts/install_appium_offline.cmd (script "offline")  *)
(*   damai_installer/scripts/setup_android_env.cmd     (script "env")       *)
(* One action per command the script runs.  The machine (what is installed, *)
(* which tools answer, the registry PATH values) is the environment; the    *)
(* outcome of every subprocess is drawn nondeterministically.               *)
(*                                                                          *)
(* cmd.exe expands %ERRORLEVEL% when it reads a statement; a parenthesised  *)
(* block is one statement, so a %ERRORLEVEL% inside a block has the value   *)
(* ERRORLEVEL had when the block was read (blockErr), not the exit code of  *)
(* the command that ran just before it inside the block.                    *)
(***************************************************************************)
EXTENDS Integers, Sequences, FiniteSets, TLC

VARIABLES
    script,      \* which script this run executes
    pc,          \* position in the script (label of the next command)
    errorlevel,  \* ERRORLEVEL of the cmd session
    blockErr,    \* ERRORLEVEL when the enclosing parenthesised block was read
    installed,   \* machine: component -> "Missing" | "Expected" | "Other"
    tool,        \* machine: helper command -> answers on PATH or not
    files,       \* machine: file name -> exists
    state,       \* per component: state of the run's state machine
    attempts,    \* install commands executed in this run, in order
    msgs,        \* error / warning lines echoed in this run
    exitCode,    \* exit code of the script, -1 while it runs
    launched,    \* start_gui.bat reached "pythonw damai_gui.py"
    run,         \* number of the current run of the script (1..MaxRuns)
    first,       \* the first run when it ended: its exit code and attempts
    removed,     \* something was uninstalled between two runs
    admin,       \* the session may write machine-scope (HKLM) values
    regOk,       \* reg query can read the machine environment key
    regPath,     \* registry PATH per scope: "machine" | "user" -> entries
    regVars,     \* registry variables set per scope: scope -> set of names
    procPath,    \* %PATH% of the cmd session
    sysPath,     \* %SYSTEM_PATH% of the cmd session, <<"undefined">> if not set
    writes,      \* setx calls of this run, in order
    cancelled,   \* orchestrator: cancel() was called during this run
    outcome,     \* orchestrator: overall outcome of the report, "none" before
    reasons,     \* orchestrator: component -> reason it is Exhausted
    current,     \* orchestrator: the component being handled, or "none"
    inflight,    \* orchestrator: child processes and environment writes in progress
    startedAtCancel, \* orchestrator: components already started when cancel() came
    atCancel,    \* orchestrator: what was in progress and applied when cancel() came
    app,         \* start_gui.pyw: attributes of the DamaiGUI instance
    alive,       \* start_gui.pyw: the Appium process started by the button is running
    window,      \* start_gui.pyw: main window "open" | "destroyed" | "exited"
    timer,       \* start_gui.pyw: a watchdog call is scheduled with root.after
    last,        \* start_gui.pyw: the handler that ran last and what it did
    bundle,      \* verify_offline_packages.bat: the files checked and their text
    defined,     \* verify_offline_packages.bat: variables defined in the cmd session
    delayed      \* verify_offline_packages.bat: delayed expansion is on in the session

vars == <<script, pc, errorlevel, blockErr, installed, tool, files, state,
          attempts, msgs, exitCode, launched, run, first, removed,
          admin, regOk, regPath, regVars, procPath, sysPath, writes,
          cancelled, outcome, reasons, current, inflight, startedAtCancel,
          atCancel, app, alive, window, timer, last, bundle, defined, delayed>>

gui == <<app, alive, window, timer, last>>
verifier == <<bundle, defined, delayed>>

orch == <<cancelled, outcome, reasons, current, inflight, startedAtCancel,
          atCancel>>

envState == <<admin, regOk, regPath, regVars, procPath, sysPath, writes>>
machine == <<installed, tool, files>>

\* How many times a script is run in succession on the same machine.
MaxRuns == 2
\* Longest machine-scope / user-scope PATH (in entries) before the first run.
MaxPathLen == 1

Components == {"PyDeps", "Node", "Appium", "Doctor", "Driver"}
Tools == {"Python", "Winget", "Npm"}
Files == {"damai_gui.py", "requirements.txt",
          "appium-2.5.0.tgz", "appium-uiautomator2-driver-2.45.1.tgz"}
Versions == {"Missing", "Expected", "Other"}
ExitCodes == {0, 1}
States == {"Pending", "Satisfied", "NeedsInstall", "Installing",
           "Verified", "Exhausted"}
Terminal == {"Satisfied", "Verified", "Exhausted"}

NoDeps == [c \in Components |-> "Pending"]

\* A component's declared ordering dependency, or "none".
\* Appium needs Node/npm (start_gui.bat: ensure_node before ensure_appium, and
\* install_appium asks for npm); the UiAutomator2 driver is installed with the
\* appium CLI.
DependsOn(c) ==
    CASE c = "Appium" -> "Node"
      [] c = "Driver" -> "Appium"
      [] OTHER -> "none"

\* The order in which each script handles its components.
Order(s) ==
    CASE s = "start_gui" -> <<"PyDeps", "Node", "Appium">>
      [] s = "online" -> <<"Appium", "Doctor", "Driver">>
      [] s = "offline" -> <<"Appium", "Doctor", "Driver">>
      [] s = "orchestrator" -> <<"Node", "Appium", "Doctor", "Driver">>
      [] OTHER -> <<>>

Attempt(c, strategy, ec) == [comp |-> c, strategy |-> strategy, exit |-> ec]

\* %ERRORLEVEL% written inside a parenthesised block: cmd substitutes it when
\* the block is read, so it is the value from before the block (atParse), not
\* the exit code of the command that just ran inside the block (atRun).
\* (!ERRORLEVEL! would give atRun.)
ErrorlevelDelayed(atParse, atRun) == atRun
ErrorlevelInBlock(atParse, atRun) == atParse

\* for /f ... in ('<cmd> --version 2^>nul') do set "VERSION=%%i":
\* VERSION is defined iff the command printed a line, whatever the version.
VersionUndefined(c) == FALSE
VersionDefined(c) == installed[c] # "Missing"

\* What an install command can leave on the machine: nothing new, the expected
\* version, or another version.
InstallResults(cur) == {cur, "Expected", "Other"}

\* exit /b <code> of the main script, after echoing message m.
Exit(code, m) ==
    /\ pc' = "done"
    /\ exitCode' = code
    /\ msgs' = IF m = "" THEN msgs ELSE msgs \cup {m}

---------------------------------------------------------------------------
\* scripts/windows/start_gui.bat

\* [1/6] python --version
check_python ==
    /\ script = "start_gui" /\ pc = "check_python"
    /\ IF tool["Python"]
          THEN /\ pc' = "check_files"
               /\ errorlevel' = 0
               /\ UNCHANGED <<exitCode, msgs>>
          ELSE /\ errorlevel' = 1
               /\ Exit(1, "Python not found")
    /\ UNCHANGED <<orch, envState, script, gui, verifier, blockErr, installed, tool, files, state, attempts,
                   launched, run, first, removed>>

\* [2/6] if not exist damai_gui.py / requirements.txt
check_files ==
    /\ script = "start_gui" /\ pc = "check_files"
    /\ IF ~files["damai_gui.py"]
          THEN Exit(1, "damai_gui.py not found")
          ELSE IF ~files["requirements.txt"]
                  THEN Exit(1, "requirements.txt not found")
                  ELSE /\ pc' = "check_deps"
                       /\ UNCHANGED <<exitCode, msgs>>
    /\ UNCHANGED <<orch, envState, script, gui, verifier, errorlevel, blockErr, installed, tool, files, state,
                   attempts, launched, run, first, removed>>

\* [3/6] python -c "import selenium"; the if-block of lines 59-79 is read now.
check_deps ==
    /\ script = "start_gui" /\ pc = "check_deps"
    /\ LET ec == IF installed["PyDeps"] # "Missing" THEN 0 ELSE 1 IN
       /\ errorlevel' = ec
       /\ blockErr' = ec
       /\ IF ec # 0
             THEN /\ pc' = "pip_install"
                  /\ state' = [state EXCEPT !["PyDeps"] = "NeedsInstall"]
             ELSE /\ pc' = "ensure_node"
                  /\ state' = [state EXCEPT !["PyDeps"] = "Satisfied"]
    /\ UNCHANGED <<orch, envState, script, gui, verifier, installed, tool, files, attempts, msgs, exitCode,
                   launched, run, first, removed>>

\* pip install -r requirements.txt, then "if %errorlevel% neq 0" of line 64,
\* which is inside the block read at line 59.
pip_install ==
    /\ script = "start_gui" /\ pc = "pip_install"
    /\ \E ec \in ExitCodes, res \in InstallResults(installed["PyDeps"]) :
         /\ errorlevel' = ec
         /\ installed' = [installed EXCEPT !["PyDeps"] = res]
         /\ attempts' = Append(attempts, Attempt("PyDeps", "online", ec))
         /\ IF ErrorlevelInBlock(blockErr, ec) # 0
               THEN /\ state' = [state EXCEPT !["PyDeps"] = "Exhausted"]
                    /\ Exit(1, "Dependency installation failed")
               ELSE /\ state' = [state EXCEPT !["PyDeps"] = "Verified"]
                    /\ pc' = "ensure_node"
                    /\ UNCHANGED <<exitCode, msgs>>
    /\ UNCHANGED <<orch, envState, script, gui, verifier, blockErr, tool, files, launched, run, first,
                   removed>>

\* ensure_node without its first probe: the installer is always called.
ensure_node_no_probe ==
    /\ script = "start_gui" /\ pc = "ensure_node"
    /\ state' = [state EXCEPT !["Node"] = "NeedsInstall"]
    /\ pc' = "install_node"
    /\ UNCHANGED <<orch, envState, script, gui, verifier, errorlevel, blockErr, installed, tool, files,
                   attempts, msgs, exitCode, launched, run, first, removed>>

\* [4/6] call :ensure_node, first probe (lines 135-139).
ensure_node ==
    /\ script = "start_gui" /\ pc = "ensure_node"
    /\ IF VersionDefined("Node")
          THEN /\ state' = [state EXCEPT !["Node"] = "Satisfied"]
               /\ pc' = "ensure_appium"
               /\ errorlevel' = 0
          ELSE /\ state' = [state EXCEPT !["Node"] = "NeedsInstall"]
               /\ pc' = "install_node"
               /\ UNCHANGED errorlevel
    /\ UNCHANGED <<orch, envState, script, gui, verifier, blockErr, installed, tool, files, attempts, msgs,
                   exitCode, launched, run, first, removed>>

\* :install_node, winget -v (lines 171-176).
install_node ==
    /\ script = "start_gui" /\ pc = "install_node"
    /\ state' = [state EXCEPT !["Node"] = "Installing"]
    /\ IF tool["Winget"]
          THEN /\ errorlevel' = 0
               /\ pc' = "winget_install"
               /\ UNCHANGED msgs
          ELSE /\ errorlevel' = 1
               /\ pc' = "verify_node"
               /\ msgs' = msgs \cup {"winget not detected"}
    /\ UNCHANGED <<orch, envState, script, gui, verifier, blockErr, installed, tool, files, attempts, exitCode,
                   launched, run, first, removed>>

\* winget install --id OpenJS.NodeJS.LTS (lines 177-184); the result is only
\* echoed.  Node.js brings npm with it.
winget_install ==
    /\ script = "start_gui" /\ pc = "winget_install"
    /\ \E ec \in ExitCodes, res \in InstallResults(installed["Node"]) :
         /\ errorlevel' = ec
         /\ installed' = [installed EXCEPT !["Node"] = res]
         /\ tool' = [tool EXCEPT !["Npm"] = @ \/ res # "Missing"]
         /\ attempts' = Append(attempts, Attempt("Node", "online", ec))
         /\ msgs' = IF ec # 0 THEN msgs \cup {"winget install failed"} ELSE msgs
    /\ pc' = "verify_node"
    /\ UNCHANGED <<orch, envState, script, gui, verifier, blockErr, files, state, exitCode, launched, run,
                   first, removed>>

\* ensure_node whose failure does not stop the main flow (no exit /b 1).
verify_node_no_exit ==
    /\ script = "start_gui" /\ pc = "verify_node"
    /\ state' = [state EXCEPT !["Node"] =
                    IF VersionDefined("Node") THEN "Verified" ELSE "Exhausted"]
    /\ pc' = "ensure_appium"
    /\ errorlevel' = 0
    /\ msgs' = IF VersionDefined("Node") THEN msgs
                ELSE msgs \cup {"Node.js still missing"}
    /\ UNCHANGED <<orch, envState, script, gui, verifier, blockErr, installed, tool, files, attempts,
                   exitCode, launched, run, first, removed>>

\* A second probe of :ensure_node that breaks what it probes.
verify_node_impure ==
    /\ script = "start_gui" /\ pc = "verify_node"
    /\ installed' = [installed EXCEPT !["Node"] = "Missing"]
    /\ IF VersionDefined("Node")
          THEN /\ state' = [state EXCEPT !["Node"] = "Verified"]
               /\ pc' = "ensure_appium"
               /\ errorlevel' = 0
               /\ UNCHANGED <<exitCode, msgs>>
          ELSE /\ state' = [state EXCEPT !["Node"] = "Exhausted"]
               /\ errorlevel' = 1
               /\ Exit(1, "Node.js still missing")
    /\ UNCHANGED <<orch, envState, script, gui, verifier, blockErr, tool, files, attempts, launched,
                   run, first, removed>>

\* :ensure_node, second probe (lines 142-150).
verify_node ==
    /\ script = "start_gui" /\ pc = "verify_node"
    /\ IF VersionDefined("Node")
          THEN /\ state' = [state EXCEPT !["Node"] = "Verified"]
               /\ pc' = "ensure_appium"
               /\ errorlevel' = 0
               /\ UNCHANGED <<exitCode, msgs>>
          ELSE /\ state' = [state EXCEPT !["Node"] = "Exhausted"]
               /\ errorlevel' = 1
               /\ Exit(1, "Node.js still missing")
    /\ UNCHANGED <<orch, envState, script, gui, verifier, blockErr, installed, tool, files, attempts, launched,
                   run, first, removed>>

\* [5/6] call :ensure_appium, first probe (lines 154-158).
ensure_appium ==
    /\ script = "start_gui" /\ pc = "ensure_appium"
    /\ IF VersionDefined("Appium")
          THEN /\ state' = [state EXCEPT !["Appium"] = "Satisfied"]
               /\ pc' = "start_program"
               /\ errorlevel' = 0
          ELSE /\ state' = [state EXCEPT !["Appium"] = "NeedsInstall"]
               /\ pc' = "install_appium"
               /\ UNCHANGED errorlevel
    /\ UNCHANGED <<orch, envState, script, gui, verifier, blockErr, installed, tool, files, attempts, msgs,
                   exitCode, launched, run, first, removed>>

\* :install_appium, npm -v (lines 186-191).
install_appium ==
    /\ script = "start_gui" /\ pc = "install_appium"
    /\ state' = [state EXCEPT !["Appium"] = "Installing"]
    /\ IF tool["Npm"]
          THEN /\ errorlevel' = 0
               /\ pc' = "npm_install_appium"
               /\ UNCHANGED msgs
          ELSE /\ errorlevel' = 1
               /\ pc' = "verify_appium"
               /\ msgs' = msgs \cup {"npm not detected"}
    /\ UNCHANGED <<orch, envState, script, gui, verifier, blockErr, installed, tool, files, attempts, exitCode,
                   launched, run, first, removed>>

\* npm install -g appium@latest (lines 192-199); the result is only echoed.
npm_install_appium ==
    /\ script = "start_gui" /\ pc = "npm_install_appium"
    /\ \E ec \in ExitCodes, res \in InstallResults(installed["Appium"]) :
         /\ errorlevel' = ec
         /\ installed' = [installed EXCEPT !["Appium"] = res]
         /\ attempts' = Append(attempts, Attempt("Appium", "online", ec))
         /\ msgs' = IF ec # 0 THEN msgs \cup {"npm install appium failed"} ELSE msgs
    /\ pc' = "verify_appium"
    /\ UNCHANGED <<orch, envState, script, gui, verifier, blockErr, tool, files, state, exitCode, launched, run,
                   first, removed>>

\* ensure_appium that returns 0 also when the CLI is still missing.
verify_appium_exit0 ==
    /\ script = "start_gui" /\ pc = "verify_appium"
    /\ state' = [state EXCEPT !["Appium"] =
                    IF VersionDefined("Appium") THEN "Verified" ELSE "Exhausted"]
    /\ pc' = "start_program"
    /\ errorlevel' = 0
    /\ msgs' = IF VersionDefined("Appium") THEN msgs
                ELSE msgs \cup {"Appium CLI still missing"}
    /\ UNCHANGED <<orch, envState, script, gui, verifier, blockErr, installed, tool, files, attempts,
                   exitCode, launched, run, first, removed>>

\* :ensure_appium, second probe (lines 161-169).
verify_appium ==
    /\ script = "start_gui" /\ pc = "verify_appium"
    /\ IF VersionDefined("Appium")
          THEN /\ state' = [state EXCEPT !["Appium"] = "Verified"]
               /\ pc' = "start_program"
               /\ errorlevel' = 0
               /\ UNCHANGED <<exitCode, msgs>>
          ELSE /\ state' = [state EXCEPT !["Appium"] = "Exhausted"]
               /\ errorlevel' = 1
               /\ Exit(1, "Appium CLI still missing")
    /\ UNCHANGED <<orch, envState, script, gui, verifier, blockErr, installed, tool, files, attempts, launched,
                   run, first, removed>>

\* [6/6] pythonw damai_gui.py, then exit /b 0 whatever the GUI returned.
start_program ==
    /\ script = "start_gui" /\ pc = "start_program"
    /\ launched' = TRUE
    /\ \E ec \in ExitCodes :
         /\ errorlevel' = ec
         /\ Exit(0, IF ec # 0 THEN "Startup Failed" ELSE "")
    /\ UNCHANGED <<orch, envState, script, gui, verifier, blockErr, installed, tool, files, state, attempts,
                   run, first, removed>>

---------------------------------------------------------------------------
\* damai_installer/scripts/install_appium_online.cmd and
\* damai_installer/scripts/install_appium_offline.cmd

\* The command a step runs can be started at all: npm for "npm install -g",
\* the appium CLI for "appium driver install".
CanRun(c) ==
    IF c = "Driver" THEN installed["Appium"] # "Missing" ELSE tool["Npm"]

\* Outcomes (exit code, what is installed afterwards) of an install command
\* for component c; a command that cannot be started ends non-zero and
\* changes nothing.
Outcomes(c) ==
    IF CanRun(c)
       THEN ExitCodes \X InstallResults(installed[c])
       ELSE {<<1, installed[c]>>}

\* One top-level step "<install command>" + "if %ERRORLEVEL% NEQ 0 (echo ..
\* exit /b 1)" of install_appium_online.cmd: exit code 0 alone decides that
\* the step succeeded.
OnlineStep(at, c, next, failure) ==
    /\ script = "online" /\ pc = at
    /\ \E o \in Outcomes(c) :
         /\ errorlevel' = o[1]
         /\ installed' = [installed EXCEPT ![c] = o[2]]
         /\ attempts' = Append(attempts, Attempt(c, "online", o[1]))
         /\ IF o[1] # 0
               THEN /\ state' = [state EXCEPT ![c] = "Exhausted"]
                    /\ Exit(1, failure)
               ELSE /\ state' = [state EXCEPT ![c] = "Verified"]
                    /\ pc' = next
                    /\ UNCHANGED <<exitCode, msgs>>
    /\ UNCHANGED <<orch, envState, script, gui, verifier, blockErr, tool, files, launched, run, first,
                   removed>>

\* Steps of install_appium_online.cmd without their "exit /b 1": a failed
\* step is reported and the script goes on.
OnlineStepContinue(at, c, next, failure) ==
    /\ script = "online" /\ pc = at
    /\ \E o \in Outcomes(c) :
         /\ errorlevel' = o[1]
         /\ installed' = [installed EXCEPT ![c] = o[2]]
         /\ attempts' = Append(attempts, Attempt(c, "online", o[1]))
         /\ state' = [state EXCEPT ![c] = IF o[1] # 0 THEN "Exhausted" ELSE "Verified"]
         /\ msgs' = IF o[1] # 0 THEN msgs \cup {failure} ELSE msgs
    /\ pc' = next
    /\ UNCHANGED <<orch, envState, script, gui, verifier, blockErr, tool, files, exitCode, launched,
                   run, first, removed>>

online_appium_continue ==
    OnlineStepContinue("online_appium", "Appium", "online_doctor", "Appium 2.5.0 install failed")

online_doctor_continue ==
    OnlineStepContinue("online_doctor", "Doctor", "online_driver", "Appium Doctor install failed")

\* npm install -g appium@2.5.0 (lines 5-11)
online_appium ==
    /\ script = "online"
    /\ OnlineStep("online_appium", "Appium", "online_doctor", "Appium 2.5.0 install failed")

\* npm install -g appium-doctor (lines 13-18)
online_doctor ==
    /\ script = "online"
    /\ OnlineStep("online_doctor", "Doctor", "online_driver", "Appium Doctor install failed")

\* appium driver install uiautomator2@2.45.1 (lines 20-25)
online_driver ==
    /\ script = "online"
    /\ OnlineStep("online_driver", "Driver", "online_verify", "UiAutomator2 Driver install failed")

\* appium --version, appium driver list --installed: printed, never tested;
\* then the success message and exit /b 0 (lines 27-35).
online_verify ==
    /\ script = "online" /\ pc = "online_verify"
    /\ errorlevel' = IF installed["Appium"] # "Missing" THEN 0 ELSE 1
    /\ Exit(0, "")
    /\ UNCHANGED <<orch, envState, script, gui, verifier, blockErr, installed, tool, files, state, attempts,
                   launched, run, first, removed>>

\* if exist "<name>.tgz" (lines 17 and 43 of install_appium_offline.cmd)
TgzExistsNever(tgz) == FALSE
TgzExists(tgz) == files[tgz]

\* install_appium_offline.cmd: the online command of a component that has a
\* .tgz fallback; the if-block that follows is read with this exit code.
OfflineFirst(at, c, tgz, nextOk, nextTgz, failure, noTgz) ==
    /\ script = "offline" /\ pc = at
    /\ \E o \in Outcomes(c) :
         /\ errorlevel' = o[1]
         /\ blockErr' = o[1]
         /\ installed' = [installed EXCEPT ![c] = o[2]]
         /\ attempts' = Append(attempts, Attempt(c, "online", o[1]))
         /\ IF o[1] = 0
               THEN /\ state' = [state EXCEPT ![c] = "Verified"]
                    /\ pc' = nextOk
                    /\ UNCHANGED <<exitCode, msgs>>
               ELSE IF TgzExists(tgz)
                       THEN /\ state' = [state EXCEPT ![c] = "Installing"]
                            /\ pc' = nextTgz
                            /\ msgs' = msgs \cup {failure}
                            /\ UNCHANGED exitCode
                       ELSE /\ state' = [state EXCEPT ![c] = "Exhausted"]
                            /\ Exit(1, noTgz)
    /\ UNCHANGED <<orch, envState, script, gui, verifier, tool, files, launched, run, first, removed>>

\* npm install -g <tgz> inside the block, then the inner
\* "if %ERRORLEVEL% NEQ 0 (.. exit /b 1) else (echo success)".
OfflineTgz(at, c, nextOk, failure) ==
    /\ script = "offline" /\ pc = at
    /\ \E o \in (IF tool["Npm"] THEN ExitCodes \X InstallResults(installed[c])
                                ELSE {<<1, installed[c]>>}) :
         /\ errorlevel' = o[1]
         /\ installed' = [installed EXCEPT ![c] = o[2]]
         /\ attempts' = Append(attempts, Attempt(c, "offline", o[1]))
         /\ IF ErrorlevelInBlock(blockErr, o[1]) # 0
               THEN /\ state' = [state EXCEPT ![c] = "Exhausted"]
                    /\ Exit(1, failure)
               ELSE /\ state' = [state EXCEPT ![c] = "Verified"]
                    /\ pc' = nextOk
                    /\ UNCHANGED <<exitCode, msgs>>
    /\ UNCHANGED <<orch, envState, script, gui, verifier, blockErr, tool, files, launched, run, first,
                   removed>>

\* The online command followed by the .tgz install whenever the .tgz exists,
\* also after the online command succeeded.
offline_appium_always_tgz ==
    /\ script = "offline" /\ pc = "offline_appium"
    /\ \E o \in Outcomes("Appium") :
         /\ errorlevel' = o[1]
         /\ blockErr' = 1
         /\ installed' = [installed EXCEPT !["Appium"] = o[2]]
         /\ attempts' = Append(attempts, Attempt("Appium", "online", o[1]))
         /\ IF TgzExists("appium-2.5.0.tgz")
               THEN /\ state' = [state EXCEPT !["Appium"] = "Installing"]
                    /\ pc' = "offline_appium_tgz"
                    /\ UNCHANGED <<exitCode, msgs>>
               ELSE IF o[1] = 0
                       THEN /\ state' = [state EXCEPT !["Appium"] = "Verified"]
                            /\ pc' = "offline_doctor"
                            /\ UNCHANGED <<exitCode, msgs>>
                       ELSE /\ state' = [state EXCEPT !["Appium"] = "Exhausted"]
                            /\ Exit(1, "Appium 2.5.0 offline package not found")
    /\ UNCHANGED <<orch, envState, script, gui, verifier, tool, files, launched, run, first, removed>>

\* npm install -g appium@2.5.0 (lines 13-17, 26-29)
offline_appium ==
    /\ script = "offline"
    /\ OfflineFirst("offline_appium", "Appium", "appium-2.5.0.tgz",
                 "offline_doctor", "offline_appium_tgz",
                 "Appium 2.5.0 online install failed",
                 "Appium 2.5.0 offline package not found")

\* npm install -g appium-2.5.0.tgz (lines 18-25)
offline_appium_tgz ==
    /\ script = "offline"
    /\ OfflineTgz("offline_appium_tgz", "Appium", "offline_doctor",
               "Appium 2.5.0 offline package install failed too")

\* npm install -g appium-doctor (lines 32-37)
offline_doctor ==
    /\ script = "offline" /\ pc = "offline_doctor"
    /\ \E o \in Outcomes("Doctor") :
         /\ errorlevel' = o[1]
         /\ installed' = [installed EXCEPT !["Doctor"] = o[2]]
         /\ attempts' = Append(attempts, Attempt("Doctor", "online", o[1]))
         /\ IF o[1] # 0
               THEN /\ state' = [state EXCEPT !["Doctor"] = "Exhausted"]
                    /\ Exit(1, "Appium Doctor install failed")
               ELSE /\ state' = [state EXCEPT !["Doctor"] = "Verified"]
                    /\ pc' = "offline_driver"
                    /\ UNCHANGED <<exitCode, msgs>>
    /\ UNCHANGED <<orch, envState, script, gui, verifier, blockErr, tool, files, launched, run, first,
                   removed>>

\* The driver step that installs the .tgz first whenever the .tgz exists.
offline_driver_tgz_first ==
    /\ script = "offline"
    /\ IF TgzExists("appium-uiautomator2-driver-2.45.1.tgz")
          THEN OfflineTgz("offline_driver", "Driver", "offline_verify",
                          "UiAutomator2 Driver offline package install failed")
          ELSE OfflineFirst("offline_driver", "Driver",
                            "appium-uiautomator2-driver-2.45.1.tgz",
                            "offline_verify", "offline_driver_tgz",
                            "UiAutomator2 Driver online install failed",
                            "UiAutomator2 Driver offline package not found")

\* appium driver install uiautomator2@2.45.1 (lines 39-42, 52-55)
offline_driver ==
    /\ script = "offline"
    /\ OfflineFirst("offline_driver", "Driver", "appium-uiautomator2-driver-2.45.1.tgz",
                 "offline_verify", "offline_driver_tgz",
                 "UiAutomator2 Driver online install failed",
                 "UiAutomator2 Driver offline package not found")

\* npm install -g appium-uiautomator2-driver-2.45.1.tgz (lines 43-51)
offline_driver_tgz ==
    /\ script = "offline"
    /\ OfflineTgz("offline_driver_tgz", "Driver", "offline_verify",
               "UiAutomator2 Driver offline package install failed")

\* appium --version, appium driver list --installed, exit /b 0 (lines 58-67)
offline_verify ==
    /\ script = "offline" /\ pc = "offline_verify"
    /\ errorlevel' = IF installed["Appium"] # "Missing" THEN 0 ELSE 1
    /\ Exit(0, "")
    /\ UNCHANGED <<orch, envState, script, gui, verifier, blockErr, installed, tool, files, state, attempts,
                   launched, run, first, removed>>

---------------------------------------------------------------------------
\* damai_installer/scripts/setup_android_env.cmd

Scopes == {"machine", "user"}
PT == "C:\\Android\\platform-tools"
PathEntries == {PT, "C:\\ANDROID\\PLATFORM-TOOLS",
                "C:\\Android\\platform-tools-old", "C:\\Windows"}
Paths == UNION {[1..k -> PathEntries] : k \in 0..MaxPathLen}
Undefined == [defined |-> FALSE, value |-> <<>>]

\* Case folding of findstr /i, on the entries of the model.
Lower(e) ==
    CASE e = "C:\\Android\\platform-tools" -> "c:\\android\\platform-tools"
      [] e = "C:\\ANDROID\\PLATFORM-TOOLS" -> "c:\\android\\platform-tools"
      [] e = "C:\\Android\\platform-tools-old" -> "c:\\android\\platform-tools-old"
      [] e = "C:\\Windows" -> "c:\\windows"

\* a contains b as a substring (on lower-case entries of the model).
Contains(a, b) ==
    \/ a = b
    \/ a = "c:\\android\\platform-tools-old" /\ b = "c:\\android\\platform-tools"

\* echo %SYSTEM_PATH% | findstr /i "C:\Android\platform-tools": ERRORLEVEL 0
\* iff the echoed line contains the string, ignoring case.
Findstr(path, target) ==
    IF \E i \in 1..Len(path) : Contains(Lower(path[i]), Lower(target))
       THEN 0 ELSE 1

\* Number of entries of path equal to e, ignoring case.
RECURSIVE Count(_, _)
Count(path, e) ==
    IF path = <<>> THEN 0
    ELSE (IF Lower(Head(path)) = Lower(e) THEN 1 ELSE 0) + Count(Tail(path), e)

\* setx <name> <value> [/M]: the outcomes of the write at a scope.  A
\* machine-scope write needs an elevated session; a user-scope write can fail
\* too.
SetxOutcomes(scope) ==
    IF scope = "machine" THEN {admin} ELSE BOOLEAN

\* setx ANDROID_xxx /M whose failure is not followed by the user-scope setx.
SetxVarMachineNoFallback(at, name, nextOk, nextFail) ==
    /\ script = "env" /\ pc = at
    /\ \E ok \in SetxOutcomes("machine") :
         /\ errorlevel' = IF ok THEN 0 ELSE 1
         /\ writes' = Append(writes, [var |-> name, scope |-> "machine", ok |-> ok])
         /\ regVars' = IF ok THEN [regVars EXCEPT !["machine"] = @ \cup {name}]
                             ELSE regVars
         /\ pc' = nextOk
         /\ UNCHANGED msgs
    /\ UNCHANGED <<orch, machine, script, gui, verifier, blockErr, state, attempts, exitCode, launched,
                   run, first, removed, admin, regOk, regPath, procPath,
                   sysPath>>

\* setx ANDROID_xxx "C:\Android" /M, and the top-level "if %ERRORLEVEL% NEQ 0"
\* that follows it.
SetxVarMachine(at, name, nextOk, nextFail) ==
    /\ script = "env" /\ pc = at
    /\ \E ok \in SetxOutcomes("machine") :
         /\ errorlevel' = IF ok THEN 0 ELSE 1
         /\ writes' = Append(writes, [var |-> name, scope |-> "machine", ok |-> ok])
         /\ IF ok
               THEN /\ regVars' = [regVars EXCEPT !["machine"] = @ \cup {name}]
                    /\ pc' = nextOk
                    /\ UNCHANGED msgs
               ELSE /\ pc' = nextFail
                    /\ msgs' = msgs \cup {"setting " \o name \o " failed, may need administrator"}
                    /\ UNCHANGED regVars
    /\ UNCHANGED <<orch, machine, script, gui, verifier, blockErr, state, attempts, exitCode, launched,
                   run, first, removed, admin, regOk, regPath, procPath,
                   sysPath>>

\* setx ANDROID_xxx "C:\Android" (user scope), the fallback inside the block.
SetxVarUser(at, name, next) ==
    /\ script = "env" /\ pc = at
    /\ \E ok \in SetxOutcomes("user") :
         /\ errorlevel' = IF ok THEN 0 ELSE 1
         /\ writes' = Append(writes, [var |-> name, scope |-> "user", ok |-> ok])
         /\ regVars' = IF ok THEN [regVars EXCEPT !["user"] = @ \cup {name}]
                             ELSE regVars
    /\ pc' = next
    /\ UNCHANGED <<orch, machine, script, gui, verifier, blockErr, state, attempts, msgs, exitCode,
                   launched, run, first, removed, admin, regOk, regPath,
                   procPath, sysPath>>

\* lines 5-9
setx_sdk_root ==
    /\ script = "env"
    /\ SetxVarMachine("setx_sdk_root", "ANDROID_SDK_ROOT", "setx_home", "setx_sdk_root_user")
\* lines 10-12
setx_sdk_root_user ==
    /\ script = "env"
    /\ SetxVarUser("setx_sdk_root_user", "ANDROID_SDK_ROOT", "setx_home")
\* lines 14-18
setx_home ==
    /\ script = "env"
    /\ SetxVarMachine("setx_home", "ANDROID_HOME", "reg_query", "setx_home_user")
\* lines 19-21
setx_home_user ==
    /\ script = "env"
    /\ SetxVarUser("setx_home_user", "ANDROID_HOME", "reg_query")

\* for /f "tokens=2*" %%i in ('reg query ... /v PATH') do set "SYSTEM_PATH=%%j"
\* (line 25).  In a .cmd file a successful set resets ERRORLEVEL to 0; when
\* reg query prints nothing the body does not run and SYSTEM_PATH and
\* ERRORLEVEL stay as they were.  Then the block of lines 26-41 is read.
reg_query ==
    /\ script = "env" /\ pc = "reg_query"
    /\ IF regOk
          THEN /\ sysPath' = IF regPath["machine"] = <<>> THEN Undefined
                             ELSE [defined |-> TRUE, value |-> regPath["machine"]]
               /\ errorlevel' = 0
          ELSE UNCHANGED <<sysPath, errorlevel>>
    /\ blockErr' = errorlevel'
    /\ pc' = IF sysPath'.defined THEN "findstr" ELSE "setx_path_nosys"
    /\ UNCHANGED <<orch, machine, script, gui, verifier, state, attempts, msgs, exitCode, launched,
                   run, first, removed, admin, regOk, regPath, regVars,
                   procPath, writes>>

\* echo %SYSTEM_PATH% | findstr /i ... >nul, then "if %ERRORLEVEL% NEQ 0" of
\* line 29, inside the block (lines 27-29, 35-37).
findstr ==
    /\ script = "env" /\ pc = "findstr"
    /\ LET ec == Findstr(sysPath.value, PT) IN
       /\ errorlevel' = ec
       /\ IF ErrorlevelInBlock(blockErr, ec) # 0
             THEN pc' = "setx_path_machine" /\ UNCHANGED msgs
             ELSE /\ pc' = "env_finish"
                  /\ msgs' = msgs \cup {"platform-tools already in system PATH"}
    /\ UNCHANGED <<orch, machine, script, gui, verifier, blockErr, state, attempts, exitCode,
                   launched, run, first, removed, admin, regOk, regPath,
                   regVars, procPath, sysPath, writes>>

\* setx PATH "%SYSTEM_PATH%;C:\Android\platform-tools" /M, then
\* "if %ERRORLEVEL% NEQ 0" of line 31, inside the block (lines 30-32).
setx_path_machine ==
    /\ script = "env" /\ pc = "setx_path_machine"
    /\ \E ok \in SetxOutcomes("machine") :
         /\ errorlevel' = IF ok THEN 0 ELSE 1
         /\ writes' = Append(writes, [var |-> "PATH", scope |-> "machine", ok |-> ok])
         /\ regPath' = IF ok THEN [regPath EXCEPT !["machine"] = Append(sysPath.value, PT)]
                             ELSE regPath
         /\ IF ErrorlevelInBlock(blockErr, IF ok THEN 0 ELSE 1) # 0
               THEN /\ pc' = "setx_path_user"
                    /\ msgs' = msgs \cup {"setting system PATH failed, trying user PATH"}
               ELSE pc' = "env_finish" /\ UNCHANGED msgs
    /\ UNCHANGED <<orch, machine, script, gui, verifier, blockErr, state, attempts, exitCode,
                   launched, run, first, removed, admin, regOk, regVars,
                   procPath, sysPath>>

\* setx PATH "%PATH%;C:\Android\platform-tools" (user scope): line 33 after a
\* machine-scope attempt, line 40 when SYSTEM_PATH is not defined.
SetxPathUser(at) ==
    /\ script = "env" /\ pc = at
    /\ \E ok \in SetxOutcomes("user") :
         /\ errorlevel' = IF ok THEN 0 ELSE 1
         /\ writes' = Append(writes, [var |-> "PATH", scope |-> "user", ok |-> ok])
         /\ regPath' = IF ok THEN [regPath EXCEPT !["user"] = Append(procPath, PT)]
                             ELSE regPath
    /\ pc' = "env_finish"
    /\ UNCHANGED <<orch, machine, script, gui, verifier, blockErr, state, attempts, msgs, exitCode,
                   launched, run, first, removed, admin, regOk, regVars,
                   procPath, sysPath>>

\* line 33
setx_path_user ==
    /\ script = "env"
    /\ SetxPathUser("setx_path_user")
\* lines 38-41
setx_path_nosys ==
    /\ script = "env"
    /\ SetxPathUser("setx_path_nosys")

\* echo "done", echo "restart the terminal or log in again for the variables
\* to take effect", exit /b 0 (lines 43-45)
env_finish ==
    /\ script = "env" /\ pc = "env_finish"
    /\ Exit(0, "restart the terminal or log in again")
    /\ UNCHANGED <<orch, machine, script, gui, verifier, errorlevel, blockErr, state, attempts,
                   launched, run, first, removed, envState, orch>>

---------------------------------------------------------------------------
\* The machine before the first run, and running a script again.

FirstLabel(s) ==
    CASE s = "start_gui" -> "check_python"
      [] s = "online" -> "online_appium"
      [] s = "offline" -> "offline_appium"
      [] s = "env" -> "setx_sdk_root"
      [] s = "orchestrator" -> "run_next"
      [] s = "launcher" -> "mainloop"
      [] s = "verify" -> "verify_files"

\* The components a script handles.
Handled(s) == {Order(s)[i] : i \in 1..Len(Order(s))}

\* The state of a cmd session that has not run anything yet.
\* The two captions start_gui.pyw writes on the Appium toggle button:
\* StartText stands for the literal of lines 34, 56, 73, 84 and 113,
\* StopText for the literal of line 51.
StartText == "start Appium"
StopText == "stop Appium"
\* Any caption the methods of damai_gui.DamaiGUI write themselves.
OriginalText == "original caption"
None == "None"

\* The DamaiGUI instance once start_gui.pyw has built and patched it (lines
\* 29-36, 88-95), with the first watchdog call scheduled (line 127) and the
\* window open.
InitApp ==
    /\ app = [appium_process |-> None, appium_pid |-> None,
              appium_running |-> FALSE, text |-> StartText, log |-> {}]
    /\ alive = FALSE
    /\ window = "open"
    /\ timer = TRUE
    /\ last = [op |-> "none", calls |-> <<>>, raised |-> FALSE]

\* No offline bundle is looked at by the other programs.
BundleFiles == {"appium-2.5.0.tgz", "appium-uiautomator2-driver-2.45.1.tgz",
                "appium-3.1.0.tgz", "package.json", "install_appium_offline.cmd"}
Needles == {"pin appium 2.5.0", "pin driver 2.45.1", "ref appium-2.5.0.tgz",
            "ref appium-uiautomator2-driver-2.45.1.tgz", "ref appium-3.1.0.tgz"}
NoBundle == [exists |-> [f \in BundleFiles |-> FALSE], has |-> [n \in Needles |-> FALSE]]
InitNoBundle ==
    /\ bundle = NoBundle
    /\ defined = {}
    /\ delayed = FALSE

StartOfRun ==
    /\ pc = FirstLabel(script)
    /\ errorlevel = 0
    /\ blockErr = 0
    /\ state = NoDeps
    /\ attempts = <<>>
    /\ msgs = {}
    /\ exitCode = -1
    /\ launched = FALSE
    /\ writes = <<>>
    /\ run = 1
    /\ first = [exit |-> -1, attempts |-> <<>>]
    /\ removed = FALSE
    /\ cancelled = FALSE
    /\ outcome = "none"
    /\ reasons = [c \in Components |-> "none"]
    /\ current = "none"
    /\ inflight = {}
    /\ startedAtCancel = {}
    /\ atCancel = [inflight |-> {}, regVars |-> [sc \in {"machine", "user"} |-> {}],
                   writes |-> <<>>]
    /\ InitApp

\* A machine on which only what script s looks at varies.
InitMachine(s) ==
    /\ script = s
    /\ installed \in {f \in [Components -> Versions] :
                        \A c \in Components \ Handled(s) : f[c] = "Missing"}
    /\ regVars = [sc \in Scopes |-> {}]

InitNoEnv ==
    /\ admin = TRUE
    /\ regOk = TRUE
    /\ regPath = [sc \in Scopes |-> <<>>]
    /\ procPath = <<>>
    /\ sysPath = Undefined

Init_start_gui ==
    /\ InitMachine("start_gui")
    /\ tool \in [Tools -> BOOLEAN]
    /\ files \in {f \in [Files -> BOOLEAN] :
                    ~f["appium-2.5.0.tgz"] /\ ~f["appium-uiautomator2-driver-2.45.1.tgz"]}
    /\ InitNoEnv

Init_online ==
    /\ InitMachine("online")
    /\ tool \in {f \in [Tools -> BOOLEAN] : f["Python"] /\ f["Winget"]}
    /\ files = [f \in Files |-> f \in {"damai_gui.py", "requirements.txt"}]
    /\ InitNoEnv

Init_offline ==
    /\ InitMachine("offline")
    /\ tool \in {f \in [Tools -> BOOLEAN] : f["Python"] /\ f["Winget"]}
    /\ files \in {f \in [Files -> BOOLEAN] :
                    f["damai_gui.py"] /\ f["requirements.txt"]}
    /\ InitNoEnv

\* The process PATH of a new session is the machine PATH followed by the user
\* PATH; SYSTEM_PATH may be left in the session by whatever ran before.
Init_env ==
    /\ InitMachine("env")
    /\ tool = [t \in Tools |-> TRUE]
    /\ files = [f \in Files |-> f \in {"damai_gui.py", "requirements.txt"}]
    /\ admin \in BOOLEAN
    /\ regOk \in BOOLEAN
    /\ regPath \in {f \in [Scopes -> Paths] : f["machine"] # <<>>}
    /\ procPath = regPath["machine"] \o regPath["user"]
    /\ sysPath \in {Undefined, [defined |-> TRUE, value |-> <<"C:\\Windows">>]}

Init ==
    /\ Init_start_gui \/ Init_online \/ Init_offline
    /\ StartOfRun
    /\ InitNoBundle

\* The user starts the same script again on the same machine.
NewRun ==
    /\ pc = "done" /\ run < MaxRuns
    /\ run' = run + 1
    /\ first' = IF run = 1 THEN [exit |-> exitCode, attempts |-> attempts] ELSE first
    /\ pc' = FirstLabel(script)
    /\ errorlevel' = 0
    /\ blockErr' = 0
    /\ state' = NoDeps
    /\ attempts' = <<>>
    /\ msgs' = {}
    /\ exitCode' = -1
    /\ launched' = FALSE
    /\ writes' = <<>>
    /\ UNCHANGED <<orch, script, gui, verifier, machine, removed, admin, regOk, regPath, regVars>>

\* start_gui.bat or an install script is started again.
Rerun ==
    /\ script # "env"
    /\ NewRun
    /\ UNCHANGED <<procPath, sysPath>>

\* setup_android_env.cmd is started again in the same cmd session (it has no
\* setlocal, so SYSTEM_PATH stays), or in a new session, whose PATH is the
\* machine PATH followed by the user PATH.
RerunEnv ==
    /\ script = "env"
    /\ NewRun
    /\ \/ UNCHANGED <<procPath, sysPath>>
       \/ /\ procPath' = regPath["machine"] \o regPath["user"]
          /\ sysPath' = Undefined

\* Between two runs somebody uninstalls a component.
Remove ==
    /\ script # "env"
    /\ pc = "done" /\ run < MaxRuns /\ ~removed
    /\ \E c \in Components :
         /\ installed[c] # "Missing"
         /\ installed' = [installed EXCEPT ![c] = "Missing"]
    /\ removed' = TRUE
    /\ UNCHANGED <<script, gui, verifier, pc, errorlevel, blockErr, tool, files, state,
                   attempts, msgs, exitCode, launched, run, first, envState,
                   orch>>

\* The commands of start_gui.bat and of the two install scripts.
Step ==
    \/ check_python \/ check_files \/ check_deps \/ pip_install
    \/ ensure_node \/ install_node \/ winget_install \/ verify_node
    \/ ensure_appium \/ install_appium \/ npm_install_appium \/ verify_appium
    \/ start_program
    \/ online_appium \/ online_doctor \/ online_driver \/ online_verify
    \/ offline_appium \/ offline_appium_tgz \/ offline_doctor
    \/ offline_driver \/ offline_driver_tgz \/ offline_verify

Next == Step \/ Rerun \/ Remove

\* start_gui.bat and the install scripts, run up to MaxRuns times.
Spec == Init /\ [][Next]_vars

\* cmd runs a started script to its end: every command returns.
FairSpec == Spec /\ WF_vars(Step)

\* The install commands of the scripts.  cmd starts each one and waits for it
\* to exit; no script sets a time limit on any of them.
InstallSteps == {"pip_install", "winget_install", "npm_install_appium",
                 "online_appium", "online_doctor", "online_driver",
                 "offline_appium", "offline_appium_tgz", "offline_doctor",
                 "offline_driver", "offline_driver_tgz"}

\* An install command that never exits (a stalled download, a prompt nobody
\* answers): cmd keeps waiting for it.
install_hangs ==
    /\ script \in {"start_gui", "online", "offline"}
    /\ pc \in InstallSteps
    /\ pc' = "hung"
    /\ UNCHANGED <<script, gui, verifier, errorlevel, blockErr, installed, tool, files, state,
                   attempts, msgs, exitCode, launched, run, first, removed,
                   envState, orch>>

NextHang == Step \/ Rerun \/ Remove \/ install_hangs

\* The scripts when an install command may never exit.
SpecHang == Init /\ [][NextHang]_vars

\* cmd runs every command that exits to its end.
FairSpecHang == SpecHang /\ WF_vars(Step)

StepEnv ==
    \/ setx_sdk_root \/ setx_sdk_root_user \/ setx_home \/ setx_home_user
    \/ reg_query \/ findstr \/ setx_path_machine \/ setx_path_user
    \/ setx_path_nosys \/ env_finish

NextEnv == StepEnv \/ RerunEnv

\* setup_android_env.cmd, run up to MaxRuns times.
InitEnv ==
    /\ script = "env"
    /\ Init_env
    /\ StartOfRun
    /\ InitNoBundle

SpecEnv == InitEnv /\ [][NextEnv]_vars

---------------------------------------------------------------------------
\* The orchestrator behind run() and cancel() (the installer the README
\* describes; its code is not part of the sources, so this section follows
\* sections 3, 4.2, 4.3, 4.4, 4.5, 5, 6 and 7 of the specification).

\* The offline artifact of a component, "none" when it has none.
Artifact(c) ==
    CASE c = "Appium" -> "appium-2.5.0.tgz"
      [] c = "Driver" -> "appium-uiautomator2-driver-2.45.1.tgz"
      [] OTHER -> "none"

\* The variable a component's EnvironmentMutation sets once the component is
\* Verified, "none" when it has no mutation.
Mutation(c) == IF c = "Appium" THEN "ANDROID_HOME" ELSE "none"

\* 4.2 Strategy Selector: online first, offline as the fallback when the
\* artifact file is present.
Strategies(c) ==
    IF Artifact(c) # "none" /\ files[Artifact(c)]
       THEN <<"online", "offline">>
       ELSE <<"online">>

\* The strategies of c that have no attempt yet, in order.
Remaining(c) ==
    SelectSeq(Strategies(c),
              LAMBDA st : \A i \in 1..Len(attempts) :
                             ~(attempts[i].comp = c /\ attempts[i].strategy = st))

\* The exit code recorded for a child process that was killed.
Killed == -1

\* 3, 7: an InstallAttempt with its resulting status: verified, or the cause
\* of the failure.
OrchAttempt(c, strategy, ec, result) ==
    [comp |-> c, strategy |-> strategy, exit |-> ec, result |-> result]

\* 4.3: how a finished install step is classified.
Classify(ec, res) ==
    IF ec = Killed THEN "timeout"
    ELSE IF ec # 0 THEN "non-zero exit"
    ELSE IF res # "Expected" THEN "verification mismatch"
    ELSE "verified"

\* The child processes and environment writes in progress that are installs.
Installs(s) == {p \in s : p.kind # "env"}

\* The next component of the run: the first one still Pending.
PendingComponents == {i \in 1..Len(Order(script)) : state[Order(script)[i]] = "Pending"}
NextComponent ==
    Order(script)[CHOOSE i \in PendingComponents : \A j \in PendingComponents : i <= j]

\* run() that does not look at the cancel flag before it starts a component.
run_start_component_uncancellable ==
    /\ script = "orchestrator" /\ pc = "run_next"
    /\ PendingComponents # {}
    /\ LET c == NextComponent IN
         IF DependsOn(c) # "none" /\ state[DependsOn(c)] = "Exhausted"
            THEN /\ state' = [state EXCEPT ![c] = "Exhausted"]
                 /\ reasons' = [reasons EXCEPT ![c] = "blocked by dependency"]
                 /\ UNCHANGED <<pc, current>>
            ELSE IF installed[c] = "Expected"
                    THEN /\ state' = [state EXCEPT ![c] = "Satisfied"]
                         /\ UNCHANGED <<pc, current, reasons>>
                    ELSE /\ state' = [state EXCEPT ![c] = "NeedsInstall"]
                         /\ current' = c
                         /\ pc' = "run_select"
                         /\ UNCHANGED reasons
    /\ UNCHANGED <<envState, machine, script, gui, verifier, errorlevel, blockErr, attempts, msgs,
                   exitCode, launched, run, first, removed, cancelled, outcome,
                   inflight, startedAtCancel, atCancel>>

\* 4.5: run() starts the next Pending component unless cancel() was called:
\* blocked by an Exhausted dependency, Satisfied by the probe, or NeedsInstall.
run_start_component ==
    /\ script = "orchestrator" /\ pc = "run_next"
    /\ ~cancelled
    /\ PendingComponents # {}
    /\ LET c == NextComponent IN
         IF DependsOn(c) # "none" /\ state[DependsOn(c)] = "Exhausted"
            THEN /\ state' = [state EXCEPT ![c] = "Exhausted"]
                 /\ reasons' = [reasons EXCEPT ![c] = "blocked by dependency"]
                 /\ UNCHANGED <<pc, current>>
            ELSE IF installed[c] = "Expected"
                    THEN /\ state' = [state EXCEPT ![c] = "Satisfied"]
                         /\ UNCHANGED <<pc, current, reasons>>
                    ELSE /\ state' = [state EXCEPT ![c] = "NeedsInstall"]
                         /\ current' = c
                         /\ pc' = "run_select"
                         /\ UNCHANGED reasons
    /\ UNCHANGED <<envState, machine, script, gui, verifier, errorlevel, blockErr, attempts, msgs,
                   exitCode, launched, run, first, removed, cancelled, outcome,
                   inflight, startedAtCancel, atCancel>>

\* An executor that spawns the child process and does not wait for it: the
\* run goes on with the next component.
run_spawn_detached ==
    /\ script = "orchestrator" /\ pc = "run_select"
    /\ ~cancelled
    /\ Remaining(current) # <<>>
    /\ inflight' = inflight \cup {[comp |-> current, kind |-> Head(Remaining(current))]}
    /\ state' = [state EXCEPT ![current] = "Installing"]
    /\ pc' = "run_next"
    /\ current' = "none"
    /\ UNCHANGED <<envState, machine, script, gui, verifier, errorlevel, blockErr, attempts, msgs,
                   exitCode, launched, run, first, removed, cancelled, outcome,
                   reasons, startedAtCancel, atCancel>>

\* 4.3 Installation Executor: spawn the next untried strategy as a child
\* process and block until it ends.
run_spawn ==
    /\ script = "orchestrator" /\ pc = "run_select"
    /\ ~cancelled
    /\ Remaining(current) # <<>>
    /\ inflight' = inflight \cup {[comp |-> current, kind |-> Head(Remaining(current))]}
    /\ state' = [state EXCEPT ![current] = "Installing"]
    /\ pc' = "run_wait"
    /\ UNCHANGED <<envState, machine, script, gui, verifier, errorlevel, blockErr, attempts, msgs,
                   exitCode, launched, run, first, removed, cancelled, outcome,
                   reasons, current, startedAtCancel, atCancel>>

\* 4.3: the child process ends, or its timeout expires and it is killed; a
\* zero exit is followed by the verification probe.  Verified (then the
\* component's EnvironmentMutation is due), or fall back to the next
\* strategy, or Exhausted.
run_complete ==
    /\ script = "orchestrator" /\ pc = "run_wait"
    /\ ~cancelled
    /\ \E p \in Installs(inflight) :
       \E ec \in ExitCodes \cup {Killed} :
       \E res \in InstallResults(installed[current]) :
         /\ p.comp = current
         /\ ec = Killed => res = installed[current]
         /\ attempts' = Append(attempts,
                               OrchAttempt(current, p.kind, ec, Classify(ec, res)))
         /\ installed' = [installed EXCEPT ![current] = res]
         /\ inflight' = inflight \ {p}
         /\ IF Classify(ec, res) = "verified"
               THEN /\ state' = [state EXCEPT ![current] = "Verified"]
                    /\ pc' = IF Mutation(current) # "none" THEN "run_env"
                             ELSE "run_next"
                    /\ current' = IF Mutation(current) # "none" THEN current
                                  ELSE "none"
                    /\ UNCHANGED reasons
               ELSE IF Len(Remaining(current)) > 1
                       THEN /\ pc' = "run_select"
                            /\ UNCHANGED <<state, current, reasons>>
                       ELSE /\ state' = [state EXCEPT ![current] = "Exhausted"]
                            /\ reasons' = [reasons EXCEPT ![current] = "own failure"]
                            /\ pc' = "run_next"
                            /\ current' = "none"
    /\ UNCHANGED <<envState, tool, files, script, gui, verifier, errorlevel, blockErr, msgs,
                   exitCode, launched, run, first, removed, cancelled, outcome,
                   startedAtCancel, atCancel>>

\* 4.4 Environment Configurator: the write of the component's mutation
\* begins.
run_env_start ==
    /\ script = "orchestrator" /\ pc = "run_env"
    /\ inflight' = inflight \cup {[comp |-> current, kind |-> "env"]}
    /\ pc' = "run_env_wait"
    /\ UNCHANGED <<envState, machine, script, gui, verifier, errorlevel, blockErr, state, attempts,
                   msgs, exitCode, launched, run, first, removed, cancelled,
                   outcome, reasons, current, startedAtCancel, atCancel>>

\* 4.4: the write ends: at machine scope, or at user scope when the
\* machine-scope write was refused.
run_env_complete ==
    /\ script = "orchestrator" /\ pc = "run_env_wait"
    /\ LET var == Mutation(current) IN
         IF admin
            THEN /\ writes' = Append(writes, [var |-> var, scope |-> "machine", ok |-> TRUE])
                 /\ regVars' = [regVars EXCEPT !["machine"] = @ \cup {var}]
            ELSE \E ok \in SetxOutcomes("user") :
                   /\ writes' = writes \o
                         <<[var |-> var, scope |-> "machine", ok |-> FALSE],
                           [var |-> var, scope |-> "user", ok |-> ok]>>
                   /\ regVars' = IF ok THEN [regVars EXCEPT !["user"] = @ \cup {var}]
                                       ELSE regVars
    /\ inflight' = inflight \ {[comp |-> current, kind |-> "env"]}
    /\ current' = "none"
    /\ pc' = "run_next"
    /\ UNCHANGED <<machine, script, gui, verifier, errorlevel, blockErr, state, attempts, msgs,
                   exitCode, launched, run, first, removed, cancelled, outcome,
                   reasons, startedAtCancel, admin, regOk, regPath, procPath,
                   sysPath, atCancel>>

\* 6: cancel() signals the abort of the run in progress.
cancel ==
    /\ script = "orchestrator"
    /\ pc \in {"run_next", "run_select", "run_wait", "run_env", "run_env_wait"}
    /\ ~cancelled
    /\ cancelled' = TRUE
    /\ startedAtCancel' = {c \in Handled(script) : state[c] # "Pending"}
    /\ atCancel' = [inflight |-> inflight, regVars |-> regVars, writes |-> writes]
    /\ UNCHANGED <<envState, machine, script, gui, verifier, pc, errorlevel, blockErr, state,
                   attempts, msgs, exitCode, launched, run, first, removed,
                   outcome, reasons, current, inflight>>

\* A cancellation that undoes the environment mutations of the run.
run_terminate_rollback ==
    /\ script = "orchestrator" /\ pc \in {"run_select", "run_wait"}
    /\ cancelled
    /\ IF pc = "run_wait"
          THEN /\ attempts' = Append(attempts,
                     OrchAttempt(current,
                                 (CHOOSE p \in Installs(inflight) : p.comp = current).kind,
                                 Killed, "cancelled"))
               /\ installed' \in {[installed EXCEPT ![current] = res] :
                                    res \in InstallResults(installed[current])}
          ELSE UNCHANGED <<attempts, installed>>
    /\ state' = [state EXCEPT ![current] = "Exhausted"]
    /\ reasons' = [reasons EXCEPT ![current] = "cancelled"]
    /\ inflight' = {}
    /\ current' = "none"
    /\ pc' = "run_next"
    /\ regVars' = [sc \in Scopes |-> {}]
    /\ UNCHANGED <<tool, files, script, gui, verifier, errorlevel, blockErr, msgs,
                   exitCode, launched, run, first, removed, cancelled, outcome,
                   startedAtCancel, atCancel, admin, regOk, regPath, procPath,
                   sysPath, writes>>

\* 5: after cancel() the child process in flight is terminated and the
\* current component is marked Exhausted with reason cancelled; nothing that
\* was applied is undone.
run_terminate ==
    /\ script = "orchestrator" /\ pc \in {"run_select", "run_wait"}
    /\ cancelled
    /\ IF pc = "run_wait"
          THEN /\ attempts' = Append(attempts,
                     OrchAttempt(current,
                                 (CHOOSE p \in Installs(inflight) : p.comp = current).kind,
                                 Killed, "cancelled"))
               /\ installed' \in {[installed EXCEPT ![current] = res] :
                                    res \in InstallResults(installed[current])}
          ELSE UNCHANGED <<attempts, installed>>
    /\ state' = [state EXCEPT ![current] = "Exhausted"]
    /\ reasons' = [reasons EXCEPT ![current] = "cancelled"]
    /\ inflight' = {}
    /\ current' = "none"
    /\ pc' = "run_next"
    /\ UNCHANGED <<envState, tool, files, script, gui, verifier, errorlevel, blockErr, msgs,
                   exitCode, launched, run, first, removed, cancelled, outcome,
                   startedAtCancel, atCancel>>

\* 4.5, 6: run() returns the report: Aborted (2) after cancel(), AllSucceeded
\* (0) when no component failed, PartialFailure (1) otherwise.
run_return ==
    /\ script = "orchestrator" /\ pc = "run_next"
    /\ cancelled \/ PendingComponents = {}
    /\ outcome' = IF cancelled THEN "Aborted"
                  ELSE IF \A c \in Handled(script) : state[c] \in {"Satisfied", "Verified"}
                          THEN "AllSucceeded"
                          ELSE "PartialFailure"
    /\ exitCode' = IF cancelled THEN 2
                   ELSE IF \A c \in Handled(script) : state[c] \in {"Satisfied", "Verified"}
                           THEN 0
                           ELSE 1
    /\ pc' = "done"
    /\ UNCHANGED <<envState, machine, script, gui, verifier, errorlevel, blockErr, state, attempts,
                   msgs, launched, run, first, removed, cancelled, reasons,
                   current, inflight, startedAtCancel, atCancel>>

Init_orchestrator ==
    /\ InitMachine("orchestrator")
    /\ tool = [t \in Tools |-> TRUE]
    /\ files \in {f \in [Files -> BOOLEAN] :
                    f["damai_gui.py"] /\ f["requirements.txt"]}
    /\ admin \in BOOLEAN
    /\ regOk = TRUE
    /\ regPath = [sc \in Scopes |-> <<>>]
    /\ procPath = <<>>
    /\ sysPath = Undefined

InitOrch ==
    /\ script = "orchestrator"
    /\ Init_orchestrator
    /\ StartOfRun
    /\ InitNoBundle

NextOrch ==
    \/ run_start_component \/ run_spawn \/ run_complete
    \/ run_env_start \/ run_env_complete
    \/ cancel \/ run_terminate \/ run_return

\* One run() of the orchestrator, with cancel() possible at any point.
SpecOrch == InitOrch /\ [][NextOrch]_vars

---------------------------------------------------------------------------
\* What a run reports.

\* The component an [ERROR] line (the line echoed before exit /b 1) names.
Subject(m) ==
    CASE m = "Dependency installation failed" -> "PyDeps"
      [] m = "Node.js still missing" -> "Node"
      [] m \in {"Appium CLI still missing", "Appium 2.5.0 install failed",
                "Appium 2.5.0 offline package not found",
                "Appium 2.5.0 offline package install failed too"} -> "Appium"
      [] m = "Appium Doctor install failed" -> "Doctor"
      [] m \in {"UiAutomator2 Driver install failed",
                "UiAutomator2 Driver offline package not found",
                "UiAutomator2 Driver offline package install failed"} -> "Driver"
      [] OTHER -> "none"

\* The components the run reports as failed.
FailedReport == {Subject(m) : m \in msgs} \cap Components

\* The reason the run gives for a component's failure.
Reason(c) ==
    IF c \notin FailedReport THEN "none"
    ELSE IF c = "Appium" /\ "npm not detected" \in msgs
            THEN "blocked by dependency"
            ELSE "own failure"

Done == pc = "done"
Ok == {"Satisfied", "Verified"}
AttemptsOf(c) == {i \in 1..Len(attempts) : attempts[i].comp = c}
Position(c) == CHOOSE i \in 1..Len(Order(script)) : Order(script)[i] = c
Dependents(a) == {b \in Handled(script) : DependsOn(b) = a}

---------------------------------------------------------------------------
\* C1: idempotent re-entry.  When the first run of start_gui.bat ended with
\* every check passed (exit code 0, GUI started) and nothing was removed from
\* the machine since, every later run executes no install command and also
\* ends with exit code 0.
C1_IdempotentReentry ==
    (script = "start_gui" /\ run >= 2 /\ first.exit = 0 /\ ~removed) =>
        /\ attempts = <<>>
        /\ \A c \in Components : state[c] \in {"Pending", "Satisfied"}
        /\ Done => exitCode = 0

\* A second run that ended, after a first run that installed something.
C1_Witness ==
    /\ script = "start_gui" /\ run = 2 /\ ~removed
    /\ first.exit = 0 /\ first.attempts # <<>>
    /\ Done /\ exitCode = 0 /\ attempts = <<>>

\* C3 as stated: a component with a dependency is Installing or later only if
\* the dependency reached Verified.
C3_Original ==
    \A c \in Handled(script) :
        (DependsOn(c) \in Handled(script)
           /\ state[c] \in {"Installing", "Verified", "Exhausted"})
        => state[DependsOn(c)] = "Verified"

\* C3 as amended: a component with a dependency leaves Pending (is probed,
\* installed) only when the dependency is Satisfied (found by its probe) or
\* Verified (found after its install).
C3_DependencyOrdering ==
    \A c \in Handled(script) :
        (DependsOn(c) \in Handled(script) /\ state[c] # "Pending")
        => state[DependsOn(c)] \in Ok

\* Appium is being installed although Node.js was never installed by the run.
C3_Witness ==
    /\ state["Appium"] = "Installing" /\ state["Node"] = "Satisfied"
    /\ attempts # <<>>

\* The setx PATH calls of the run, those that were accepted, and the scope
\* the run ended up writing PATH to (machine when it wrote nothing).
PathWrites == {i \in 1..Len(writes) : writes[i].var = "PATH"}
PathWritesOk == {i \in PathWrites : writes[i].ok}
WrittenScope ==
    IF PathWritesOk = {} THEN "machine"
    ELSE writes[CHOOSE i \in PathWritesOk : \A j \in PathWritesOk : j <= i].scope

\* C2: PATH append is deduplicating.  When setup_android_env.cmd has ended,
\* the PATH of the scope it wrote to (the machine scope when it decided that
\* no write was needed) contains the platform-tools entry exactly once; a run
\* whose every PATH write was refused is not counted.
C2_PathAppendDeduplicating ==
    (script = "env" /\ Done /\ (PathWrites = {} \/ PathWritesOk # {}))
    => Count(regPath[WrittenScope], PT) = 1

\* The .tgz file install_appium_offline.cmd falls back to for a component,
\* and the command that installs it.
Tgz(c) ==
    IF c = "Appium" THEN "appium-2.5.0.tgz"
    ELSE "appium-uiautomator2-driver-2.45.1.tgz"
TgzStep(c) == IF c = "Appium" THEN "offline_appium_tgz" ELSE "offline_driver_tgz"

\* C4: fallback correctness in install_appium_offline.cmd.  After an online
\* attempt of Appium or of the driver that ended non-zero while the
\* component's .tgz file exists, the next attempt is the offline attempt of
\* the same component (and when no attempt follows yet, the offline install
\* is the very next command).
C4_FallbackNext ==
    script = "offline" =>
      \A i \in 1..Len(attempts) :
        (/\ attempts[i].comp \in {"Appium", "Driver"}
         /\ attempts[i].strategy = "online"
         /\ attempts[i].exit # 0
         /\ files[Tgz(attempts[i].comp)])
        => IF i < Len(attempts)
              THEN /\ attempts[i + 1].comp = attempts[i].comp
                   /\ attempts[i + 1].strategy = "offline"
              ELSE pc = TgzStep(attempts[i].comp)

\* The driver's online install failed and its offline attempt followed.
C4_Witness ==
    /\ script = "offline" /\ Len(attempts) = 4
    /\ attempts[3] = Attempt("Driver", "online", 1)
    /\ attempts[4].comp = "Driver" /\ attempts[4].strategy = "offline"

C8_VerificationOverridesExit ==
    ~removed =>
      \A c \in Handled(script) : state[c] = "Verified" =>
        IF script = "start_gui" THEN installed[c] # "Missing"
        ELSE installed[c] = "Expected"

\* b depends on a, directly or through other components.
RECURSIVE DependsTrans(_, _)
DependsTrans(b, a) ==
    /\ DependsOn(b) # "none"
    /\ \/ DependsOn(b) = a
       \/ DependsTrans(DependsOn(b), a)

C10_Report ==
    /\ Done =>
         \E k \in 0..Len(Order(script)) :
           /\ \A i \in 1..k : state[Order(script)[i]] \in Terminal
           /\ \A i \in (k + 1)..Len(Order(script)) :
                state[Order(script)[i]] = "Pending"
           /\ k < Len(Order(script)) =>
                (exitCode = 1 /\ (k > 0 => state[Order(script)[k]] = "Exhausted"))
    /\ \A i, j \in 1..Len(attempts) :
         (i < j /\ attempts[i].comp = attempts[j].comp) =>
           /\ attempts[i].strategy # attempts[j].strategy
           /\ attempts[i].exit # 0

C6_Cancellation ==
    (script = "orchestrator" /\ cancelled) =>
        /\ \A c \in Handled(script) \ startedAtCancel :
             state[c] = "Pending" /\ AttemptsOf(c) = {}
        /\ Done => outcome = "Aborted" /\ exitCode = 2

\* cancel() came while the second component was being installed; run() has
\* returned and the later components were never started.
C6_Witness ==
    /\ script = "orchestrator" /\ Done /\ cancelled
    /\ startedAtCancel = {"Node", "Appium"}
    /\ reasons["Appium"] = "cancelled"
    /\ AttemptsOf("Appium") # {}
    /\ state["Driver"] = "Pending"

\* The user-scope setx that follows a machine-scope setx of a variable, and
\* the line the script echoes when the machine-scope setx failed.
UserStep(var) ==
    CASE var = "ANDROID_SDK_ROOT" -> "setx_sdk_root_user"
      [] var = "ANDROID_HOME" -> "setx_home_user"
      [] var = "PATH" -> "setx_path_user"
DowngradeMessage(var) ==
    IF var = "PATH" THEN "setting system PATH failed, trying user PATH"
    ELSE "setting " \o var \o " failed, may need administrator"

C12_StrategyOrder ==
    \A i \in 1..Len(attempts) :
      /\ attempts[i].strategy = "offline" =>
           /\ attempts[i].comp \in {"Appium", "Driver"}
           /\ files[Tgz(attempts[i].comp)]
           /\ i > 1
           /\ attempts[i - 1] = Attempt(attempts[i].comp, "online", 1)
      /\ (/\ script = "offline"
          /\ attempts[i].comp \in {"Appium", "Driver"}
          /\ attempts[i].strategy = "online"
          /\ attempts[i].exit # 0
          /\ ~files[Tgz(attempts[i].comp)]) =>
           /\ i = Len(attempts)
           /\ Done /\ exitCode = 1
           /\ state[attempts[i].comp] = "Exhausted"

\* install_appium_offline.cmd fell back to the .tgz of Appium, and in a run
\* without the driver's .tgz the driver failed after its online attempt.
C12_Witness ==
    /\ script = "offline" /\ Done
    /\ files["appium-2.5.0.tgz"] /\ ~files["appium-uiautomator2-driver-2.45.1.tgz"]
    /\ run = 2
    /\ first.attempts = <<Attempt("Appium", "online", 1), Attempt("Appium", "offline", 0)>>
    /\ attempts # <<>>
    /\ attempts[Len(attempts)] = Attempt("Driver", "online", 1)

\* C13: the version probe is exact.  A component that start_gui.bat's probe
\* reports as installed (Satisfied: nothing to install) is installed at the
\* required version; a component present at another version is not reported
\* as installed.
C13_VersionProbeExact ==
    (script = "start_gui" /\ ~removed) =>
        \A c \in {"Node", "Appium"} :
            state[c] = "Satisfied" => installed[c] = "Expected"

\* The probe commands of start_gui.bat and the component each one probes.
ProbeSteps == {"check_deps", "ensure_node", "verify_node", "ensure_appium",
               "verify_appium"}
ProbeOf(step) ==
    CASE step = "check_deps" -> "PyDeps"
      [] step \in {"ensure_node", "verify_node"} -> "Node"
      [] step \in {"ensure_appium", "verify_appium"} -> "Appium"

\* C14: probes are pure reads.  A probe step of start_gui.bat changes neither
\* what is installed, nor the tools and files of the machine, nor any
\* environment variable, and records no install attempt; its result depends
\* only on what is installed (found iff the component is present), so probing
\* again without an install or a removal in between gives the same result.
C14_ProbesPure ==
    [][(script = "start_gui" /\ pc \in ProbeSteps) =>
          /\ installed' = installed /\ tool' = tool /\ files' = files
          /\ regPath' = regPath /\ regVars' = regVars /\ procPath' = procPath
          /\ attempts' = attempts
          /\ state'[ProbeOf(pc)] \in Ok <=> installed[ProbeOf(pc)] # "Missing"]_vars

\* Node.js, installed by the first run, was probed three times: before and
\* after its install in the first run, and again by the second run.
C14_Witness ==
    /\ script = "start_gui" /\ run = 2 /\ ~removed
    /\ first.attempts # <<>> /\ first.attempts[1].comp = "Node"
    /\ state["Node"] = "Satisfied" /\ pc = "ensure_appium"

\* C15: the PATH membership test is case-insensitive and separator-aware.
\* When setup_android_env.cmd has read the machine PATH (reg query succeeded)
\* and has ended, it has appended the platform-tools entry (made a PATH
\* write) exactly when no entry of that PATH equals the target ignoring case:
\* an entry that differs only in case means no append, an entry that merely
\* contains the target as a substring does not.
C15_PathMembership ==
    (script = "env" /\ Done /\ regOk /\ sysPath.defined) =>
        (PathWrites # {} <=> Count(sysPath.value, PT) = 0)

\* The setx calls of the run for a variable, and those that were accepted.
WritesOf(var) == {i \in 1..Len(writes) : writes[i].var = var}
WritesOkOf(var) == {i \in WritesOf(var) : writes[i].ok}

\* C16: the exit code matches the outcome.  setup_android_env.cmd does not
\* end with exit code 0 when one of its environment writes failed at every
\* scope it was attempted at.
C16_ExitCodeMatchesOutcome ==
    (script = "env" /\ Done /\ exitCode = 0) =>
        \A var \in {"ANDROID_SDK_ROOT", "ANDROID_HOME", "PATH"} :
            WritesOf(var) # {} => WritesOkOf(var) # {}

\* C17: cancellation during an in-flight step.  When cancel() came while a
\* child process of component C was running: once the run has reacted, the
\* child process is gone, C is Exhausted with reason cancelled and its last
\* attempt is recorded as cancelled; no component that had not started is
\* started; and the environment is exactly as it was when cancel() came (what
\* was applied stays applied, nothing more is written).
C17_CancelInFlight ==
    (script = "orchestrator" /\ cancelled /\ Installs(atCancel.inflight) # {}) =>
        /\ regVars = atCancel.regVars
        /\ writes = atCancel.writes
        /\ \A c \in Handled(script) \ startedAtCancel :
             state[c] = "Pending" /\ AttemptsOf(c) = {}
        /\ pc # "run_wait" =>
             /\ inflight = {}
             /\ \A p \in atCancel.inflight :
                  /\ state[p.comp] = "Exhausted"
                  /\ reasons[p.comp] = "cancelled"
                  /\ attempts # <<>>
                  /\ attempts[Len(attempts)] =
                        OrchAttempt(p.comp, p.kind, Killed, "cancelled")

\* cancel() came while the driver was being installed, after the mutation of
\* Appium had been applied; run() has returned.
C17_Witness ==
    /\ script = "orchestrator" /\ Done /\ cancelled
    /\ atCancel.inflight = {[comp |-> "Driver", kind |-> "online"]}
    /\ "ANDROID_HOME" \in regVars["machine"]
    /\ reasons["Driver"] = "cancelled"

\* C18: a timeout is a failure, not a hang.  An install command that does not
\* exit is ended after its time limit and its step classified Failed: the
\* script does not stay waiting for it.
C18_TimeoutIsFailure == (pc = "hung") ~> (pc # "hung")

\* C19: strictly sequential execution.  In every state of an orchestrator run
\* at most one child process or environment write is in progress, it belongs
\* to the component the run is handling, and no other component is being
\* installed meanwhile.
C19_Sequential ==
    script = "orchestrator" =>
        /\ Cardinality(inflight) <= 1
        /\ \A p \in inflight :
             /\ p.comp = current
             /\ pc = IF p.kind = "env" THEN "run_env_wait" ELSE "run_wait"
        /\ \A c \in Handled(script) :
             state[c] \in {"NeedsInstall", "Installing"} => c = current

\* The environment write of Appium is in progress after Node.js was
\* installed by this run.
C19_Witness ==
    /\ script = "orchestrator"
    /\ inflight = {[comp |-> "Appium", kind |-> "env"]}
    /\ state["Node"] = "Verified" /\ state["Appium"] = "Verified"
    /\ state["Doctor"] = "Pending"

\* C20: the scenario with one attempt per success.  On a machine where A
\* (Node.js) is present at a version that is not the required one and B
\* (Appium, which depends on A) is missing, a first run of start_gui.bat in
\* which every install command exited 0 and B ended at the required version
\* ends with exit code 0 and a report of exactly two attempts, A's before B's.
C20_Scenario ==
    (/\ script = "start_gui"
     /\ installed["PyDeps"] = "Expected"
     /\ installed["Node"] = "Other"
     /\ installed["Appium"] = "Missing"
     /\ \A t \in Tools : tool[t]
     /\ files["damai_gui.py"] /\ files["requirements.txt"])
    => []((/\ Done /\ run = 1 /\ ~removed
           /\ \A i \in 1..Len(attempts) : attempts[i].exit = 0
           /\ installed["Appium"] = "Expected")
          => /\ exitCode = 0
             /\ Len(attempts) = 2
             /\ attempts[1].comp = "Node"
             /\ attempts[2].comp = "Appium")

\* C21: a successful offline fallback yields success.  In
\* install_appium_offline.cmd an offline install of a .tgz that exited 0 makes
\* its component succeed and the script go on (it does not exit 1 at that
\* step); the script exits 1 at that step only when the offline install
\* exited non-zero.
C21_OfflineFallbackSuccess ==
    script = "offline" =>
        \A i \in 1..Len(attempts) : attempts[i].strategy = "offline" =>
            IF attempts[i].exit = 0
               THEN /\ state[attempts[i].comp] = "Verified"
                    /\ ~(i = Len(attempts) /\ Done /\ exitCode = 1)
               ELSE /\ state[attempts[i].comp] = "Exhausted"
                    /\ i = Len(attempts) /\ Done /\ exitCode = 1

\* C22: the launch gate of start_gui.bat.  The GUI is started only when the
\* five checks passed in order; a run that ends without starting the GUI exits
\* with code 1; and a run in which selenium was missing and pip install
\* exited 0 goes on to the Node.js check instead of exiting.
C22_LaunchGate ==
    (script = "start_gui" /\ ~removed) =>
        /\ launched =>
              /\ tool["Python"]
              /\ files["damai_gui.py"] /\ files["requirements.txt"]
              /\ \A c \in {"PyDeps", "Node", "Appium"} : state[c] \in Ok
        /\ (Done /\ ~launched) => exitCode = 1
        /\ \A i \in 1..Len(attempts) :
              (attempts[i].comp = "PyDeps" /\ attempts[i].exit = 0) =>
                  /\ state["PyDeps"] = "Verified"
                  /\ ~(i = Len(attempts) /\ Done /\ exitCode = 1)

\* ---------------------------------------------------------------------------
\* start_gui.pyw: the Appium toggle button of the GUI, patched at run time.
\* The three methods of damai_gui.DamaiGUI it wraps belong to damai_gui.py;
\* each is modelled by its contract: a call that returns has done its work,
\* a call that raises may or may not have done it.
\* ---------------------------------------------------------------------------
scripts == <<script, pc, errorlevel, blockErr, installed, tool, files, state,
             attempts, msgs, exitCode, launched, run, first, removed>>

Started(a) == [a EXCEPT !.appium_process = "proc", !.appium_pid = "pid",
                        !.appium_running = TRUE]
Cleared(a) == [a EXCEPT !.appium_process = None, !.appium_pid = None,
                        !.appium_running = FALSE]
Caption(a, t) == [a EXCEPT !.text = t]
\* app.log(line): the line is added to the log pane of the GUI.
Log(a, line) == [a EXCEPT !.log = @ \cup {line}]

\* DamaiGUI._start_appium_server: starts the Appium process and records it, or
\* fails and resets the state; called while Appium is marked running it may
\* return at once.  It may write a caption of its own.
StartOutcomes(a, live) ==
    {o \in [effect : {"none", "started", "failed"}, raised : BOOLEAN,
            caption : BOOLEAN] :
        /\ (~o.raised /\ o.effect = "none") => a.appium_running
        /\ o.effect \in {"started", "failed"} => ~live}
_orig_start(a, o) ==
    LET b == CASE o.effect = "started" -> Started(a)
               [] o.effect = "failed" -> Cleared(a)
               [] OTHER -> a
    IN  IF o.caption THEN Caption(b, OriginalText) ELSE b

\* DamaiGUI._stop_appium_server: ends the Appium process and resets the state.
StopOutcomes ==
    {o \in [effect : {"none", "stopped"}, raised : BOOLEAN] :
        ~o.raised => o.effect = "stopped"}
_orig_stop(a, o) == IF o.effect = "stopped" THEN Cleared(a) ELSE a

\* DamaiGUI._reset_appium_state: forgets the process and marks Appium stopped.
ResetOutcomes ==
    {o \in [effect : {"none", "cleared"}, raised : BOOLEAN] :
        ~o.raised => o.effect = "cleared"}
_orig_reset(a, o) == IF o.effect = "cleared" THEN Cleared(a) ELSE a

\* A reset whose caption is written only when the original returned.
PatchedResetNoFinally(a, o) ==
    IF o.raised THEN _orig_reset(a, o) ELSE Caption(_orig_reset(a, o), StartText)

\* _patched_reset_appium_state: the original, then the caption in "finally".
\* The exception of the original, if any, goes on to the caller.
PatchedReset(a, o) == Caption(_orig_reset(a, o), StartText)

\* _patched_stop_appium_server as its callers see it.
PatchedStop(a, o) == Caption(_orig_stop(a, o), StartText)

\* The button (or any other caller) starts Appium.  An exception of the
\* original is caught and logged, the caption is then left as it is.
_patched_start_appium_server ==
    /\ script = "launcher" /\ window = "open"
    /\ \E o \in StartOutcomes(app, alive) :
         LET a == _orig_start(app, o) IN
         /\ app' = IF o.raised
                      THEN Log(a, "start patch failed")
                      ELSE Caption(a, IF a.appium_running THEN StopText ELSE StartText)
         /\ alive' = IF o.effect = "started" THEN TRUE ELSE alive
         /\ last' = [op |-> "start",
                     calls |-> <<"_orig_start", IF o.raised THEN "log" ELSE "config">>,
                     raised |-> o.raised]
    /\ UNCHANGED <<window, timer, scripts, envState, orch, verifier>>

\* The button (or any other caller) stops Appium.
_patched_stop_appium_server ==
    /\ script = "launcher" /\ window = "open"
    /\ \E o \in StopOutcomes :
         /\ app' = PatchedStop(app, o)
         /\ alive' = IF o.effect = "stopped" THEN FALSE ELSE alive
         /\ last' = [op |-> "stop", calls |-> <<"_orig_stop", "config">>,
                     raised |-> o.raised]
    /\ UNCHANGED <<window, timer, scripts, envState, orch, verifier>>

\* The Appium process ends by itself, e.g. its console window is closed.
appium_exits ==
    /\ script = "launcher" /\ alive
    /\ alive' = FALSE
    /\ last' = [op |-> "exit", calls |-> <<>>, raised |-> FALSE]
    /\ UNCHANGED <<app, window, timer, scripts, envState, orch, verifier>>

\* A watchdog that does not schedule its next call.
AfterNever(w) == FALSE

\* app.root.after(1000, _appium_watchdog) in the "finally" of the watchdog:
\* the next call is scheduled while the window exists.
After(w) == w = "open"

\* One call of the watchdog by the Tk main loop.
_appium_watchdog ==
    /\ script = "launcher" /\ window = "open" /\ timer
    /\ IF app.appium_process # None
          THEN IF ~alive
                  THEN \E o \in ResetOutcomes :
                         /\ app' = IF o.raised
                                      THEN PatchedReset(app, o)
                                      ELSE Log(PatchedReset(app, o), "console closed")
                         /\ last' = [op |-> "tick",
                                     calls |-> IF o.raised
                                                  THEN <<"poll", "_reset_appium_state">>
                                                  ELSE <<"poll", "_reset_appium_state", "log">>,
                                     raised |-> o.raised]
                  ELSE /\ app' = app
                       /\ last' = [op |-> "tick", calls |-> <<"poll">>, raised |-> FALSE]
          ELSE /\ app' = Caption(app, StartText)
               /\ last' = [op |-> "tick", calls |-> <<"config">>, raised |-> FALSE]
    /\ timer' = After(window)
    /\ UNCHANGED <<alive, window, scripts, envState, orch, verifier>>

\* A close handler that never stops Appium.
ShouldStopNever(a) == FALSE

\* Line 134: Appium is marked running and its pid is known.
ShouldStop(a) == a.appium_running /\ a.appium_pid # None

\* The user closes the main window: Appium is stopped if it is marked running
\* (a failure is shown as a warning), then the window is destroyed; when
\* destroy() raises the process ends with os._exit(0).
_on_close ==
    /\ script = "launcher" /\ window = "open"
    /\ \E w \in {"destroyed", "exited"} :
         LET end == IF w = "exited" THEN <<"destroy", "_exit">> ELSE <<"destroy">> IN
         /\ window' = w
         /\ IF ShouldStop(app)
               THEN \E o \in StopOutcomes :
                      /\ app' = IF o.raised
                                   THEN PatchedStop(app, o)
                                   ELSE Log(PatchedStop(app, o), "stopped before exit")
                      /\ alive' = IF o.effect = "stopped" THEN FALSE ELSE alive
                      /\ last' = [op |-> "close",
                                  calls |-> <<"_stop_appium_server",
                                              IF o.raised THEN "showwarning" ELSE "log">>
                                            \o end,
                                  raised |-> o.raised]
               ELSE /\ UNCHANGED <<app, alive>>
                    /\ last' = [op |-> "close", calls |-> end, raised |-> FALSE]
    /\ timer' = FALSE
    /\ UNCHANGED <<scripts, envState, orch, verifier>>

InitGui ==
    /\ InitMachine("launcher")
    /\ tool = [t \in Tools |-> TRUE]
    /\ files = [f \in Files |-> f \in {"damai_gui.py", "requirements.txt"}]
    /\ InitNoEnv
    /\ StartOfRun
    /\ InitNoBundle

NextGui ==
    \/ _patched_start_appium_server \/ _patched_stop_appium_server
    \/ appium_exits \/ _appium_watchdog \/ _on_close

\* The GUI from app.run() until its window is closed.
SpecGui == InitGui /\ [][NextGui]_vars

\* The Tk main loop runs a scheduled watchdog call.
FairSpecGui == SpecGui /\ WF_vars(_appium_watchdog)

\* What the handler that ran last did.
Called(f) == \E i \in 1..Len(last.calls) : last.calls[i] = f
Reset(a) == a.appium_process = None /\ a.appium_pid = None /\ ~a.appium_running
Exited == app.appium_process # None /\ ~alive

C24_ButtonTracksState ==
    script = "launcher" =>
        /\ last.op = "start" => (app.text = StopText <=> app.appium_running)
        /\ (last.op = "stop" \/ Called("_reset_appium_state")) => app.text = StartText
        /\ app.text = StopText => (app.appium_running /\ app.appium_process # None)

Closed == window \in {"destroyed", "exited"}
StopFirst == last.calls # <<>> /\ last.calls[1] = "_stop_appium_server"

BangErrorlevel(on, e) == IF on THEN (IF e = 0 THEN "0" ELSE "1") ELSE "!ERRORLEVEL!"

\* if a EQU b: a comparison of numbers when both are numbers, else of strings.
Equ(a, b) == a = b

\* findstr /C:"..." file >nul : 0 when the file has the text, else 1.
FindstrIn(n) == IF bundle.has[n] THEN 0 ELSE 1

\* if exist of lines 139-159: the two packages and the leftover of the old one.
verify_files ==
    /\ script = "verify" /\ pc = "verify_files"
    /\ LET missing == {f \in {"appium-2.5.0.tgz",
                              "appium-uiautomator2-driver-2.45.1.tgz"} :
                          ~bundle.exists[f]}
           old == bundle.exists["appium-3.1.0.tgz"]
       IN  /\ defined' = defined
                           \cup (IF missing # {} THEN {"has_error"} ELSE {})
                           \cup (IF old THEN {"has_warning"} ELSE {})
           /\ msgs' = msgs \cup {f \o " missing" : f \in missing}
                           \cup (IF old THEN {"old version found"} ELSE {})
    /\ pc' = "verify_package_json"
    /\ UNCHANGED <<script, errorlevel, blockErr, installed, tool, files, state, attempts,
                   exitCode, launched, run, first, removed, envState, orch, gui,
                   bundle, delayed>>

\* Lines 163-182: package.json and the two versions it pins.
verify_package_json ==
    /\ script = "verify" /\ pc = "verify_package_json"
    /\ IF bundle.exists["package.json"]
          THEN LET e1 == FindstrIn("pin appium 2.5.0")
                   e2 == FindstrIn("pin driver 2.45.1")
                   ok1 == Equ(BangErrorlevel(delayed, e1), "0")
                   ok2 == Equ(BangErrorlevel(delayed, e2), "0")
               IN  /\ errorlevel' = e2
                   /\ defined' = IF ok1 /\ ok2 THEN defined
                                              ELSE defined \cup {"has_error"}
                   /\ msgs' = msgs
                        \cup (IF ok1 THEN {} ELSE {"Appium version wrong"})
                        \cup (IF ok2 THEN {} ELSE {"Driver version wrong"})
          ELSE /\ defined' = defined \cup {"has_error"}
               /\ msgs' = msgs \cup {"package.json missing"}
               /\ UNCHANGED errorlevel
    /\ pc' = "verify_script"
    /\ UNCHANGED <<script, blockErr, installed, tool, files, state, attempts,
                   exitCode, launched, run, first, removed, envState, orch, gui,
                   bundle, delayed>>

\* Lines 186-213: install_appium_offline.cmd and the packages it names.
verify_script ==
    /\ script = "verify" /\ pc = "verify_script"
    /\ IF bundle.exists["install_appium_offline.cmd"]
          THEN LET e1 == FindstrIn("ref appium-2.5.0.tgz")
                   e2 == FindstrIn("ref appium-uiautomator2-driver-2.45.1.tgz")
                   e3 == FindstrIn("ref appium-3.1.0.tgz")
                   ok1 == Equ(BangErrorlevel(delayed, e1), "0")
                   ok2 == Equ(BangErrorlevel(delayed, e2), "0")
                   old == Equ(BangErrorlevel(delayed, e3), "0")
               IN  /\ errorlevel' = e3
                   /\ defined' = defined
                        \cup (IF ok1 /\ ok2 THEN {} ELSE {"has_error"})
                        \cup (IF old THEN {"has_warning"} ELSE {})
                   /\ msgs' = msgs
                        \cup (IF ok1 THEN {} ELSE {"script does not name the Appium package"})
                        \cup (IF ok2 THEN {} ELSE {"script does not name the Driver package"})
                        \cup (IF old THEN {"script names the old package"} ELSE {})
          ELSE /\ defined' = defined \cup {"has_error"}
               /\ msgs' = msgs \cup {"install_appium_offline.cmd missing"}
               /\ UNCHANGED errorlevel
    /\ pc' = "verify_verdict"
    /\ UNCHANGED <<script, blockErr, installed, tool, files, state, attempts,
                   exitCode, launched, run, first, removed, envState, orch, gui,
                   bundle, delayed>>

\* Lines 217-227: if defined has_error / else if defined has_warning / else.
verify_verdict ==
    /\ script = "verify" /\ pc = "verify_verdict"
    /\ IF "has_error" \in defined
          THEN Exit(1, "verification failed")
          ELSE IF "has_warning" \in defined
                  THEN Exit(0, "verification passed with warnings")
                  ELSE Exit(0, "all checks passed")
    /\ UNCHANGED <<script, errorlevel, blockErr, installed, tool, files, state, attempts,
                   launched, run, first, removed, envState, orch, gui, verifier>>

\* Any bundle, in a cmd session that may have delayed expansion on (cmd /V:ON)
\* and may already hold has_error or has_warning: the script neither clears
\* them nor uses setlocal.
InitVerify ==
    /\ InitMachine("verify")
    /\ tool = [t \in Tools |-> TRUE]
    /\ files = [f \in Files |-> f \in {"damai_gui.py", "requirements.txt"}]
    /\ InitNoEnv
    /\ StartOfRun
    /\ bundle \in {b \in [exists : [BundleFiles -> BOOLEAN], has : [Needles -> BOOLEAN]] :
                     /\ ~b.exists["package.json"] =>
                            (~b.has["pin appium 2.5.0"] /\ ~b.has["pin driver 2.45.1"])
                     /\ ~b.exists["install_appium_offline.cmd"] =>
                            \A n \in {"ref appium-2.5.0.tgz",
                                      "ref appium-uiautomator2-driver-2.45.1.tgz",
                                      "ref appium-3.1.0.tgz"} : ~b.has[n]}
    /\ defined \in SUBSET {"has_error", "has_warning"}
    /\ delayed \in BOOLEAN

NextVerify ==
    \/ verify_files \/ verify_package_json \/ verify_script \/ verify_verdict

\* One run of verify_offline_packages.bat.
SpecVerify == InitVerify /\ [][NextVerify]_vars

\* What the script is meant to find.
ErrorFound ==
    \/ ~bundle.exists["appium-2.5.0.tgz"]
    \/ ~bundle.exists["appium-uiautomator2-driver-2.45.1.tgz"]
    \/ ~bundle.exists["package.json"]
    \/ ~bundle.has["pin appium 2.5.0"] \/ ~bundle.has["pin driver 2.45.1"]
    \/ ~bundle.exists["install_appium_offline.cmd"]
    \/ ~bundle.has["ref appium-2.5.0.tgz"]
    \/ ~bundle.has["ref appium-uiautomator2-driver-2.45.1.tgz"]

\* C26: verify_offline_packages.bat exits with 1 exactly when it found at least
\* one error (a required .tgz missing, package.json missing or not pinning
\* appium 2.5.0 and the driver 2.45.1, install_appium_offline.cmd missing or
\* not naming both packages) and with 0 when everything is correct; warnings
\* alone never make it exit non-zero.
C26_Verdict ==
    (script = "verify" /\ Done) => (exitCode = 1 <=> ErrorFound)

\* C27: the PATH mutation is append-only.  Every step of setup_android_env.cmd
\* that changes the PATH of a scope, the machine scope or the user scope of the
\* fallback, keeps every entry that PATH had, in the same order, and adds the
\* platform-tools entry only: no entry of another scope or of the process PATH
\* is copied in.
C27_PathAppendOnly ==
    [][script = "env" =>
         \A sc \in Scopes :
            regPath'[sc] # regPath[sc] => regPath'[sc] = Append(regPath[sc], PT)]_vars

====
